---- MODULE Spec2Model ----
(***************************************************************************)
(* Multi-provider OAuth client of supabase-integration-template.           *)
(*                                                                         *)
(* The state is the browser's cookie jar for one session (the transient-   *)
(* secret store), the generator's position, and the outcome of the last    *)
(* request handled.  The repository carries two implementations of the     *)
(* authorize and callback routes: one built on oauth4webapi ("lib") and a  *)
(* hand-rolled one ("hand").  Both are modelled, each from its own source. *)
(***************************************************************************)
EXTENDS Integers, Sequences, FiniteSets, TLC

\* impl     which of the two implementations of the routes is deployed
\* cookies  the browser's cookie jar: cookie name -> value, None when absent
\* nonce    the position of the random generator
\* steps    the number of requests handled
\* last     the last request and its outcome
\* consumed the (provider, state, code) triples exchanged successfully
\* button   the ConnectButton of one provider on the home page, its popup
\*          and the last event the page handled
VARIABLES impl, cookies, nonce, steps, last, consumed, button

vars == <<impl, cookies, nonce, steps, last, consumed, button>>

\* `undefined` of the source: an absent cookie, parameter or field.
None == "none"

(***************************************************************************)
(* Bounds of the model.                                                    *)
(***************************************************************************)
MaxSteps == 3
MaxAttempts == 2
\* The requests a session that is already connected still makes.
ReconnectSteps == 2
\* The clicks on the Connect button of one page.
MaxClicks == 2

(***************************************************************************)
(* Provider registry (src/lib/oauth-config.ts).                            *)
(***************************************************************************)
VALID_PROVIDERS == {"supabase", "github", "clerk", "google"}

\* Provider identifiers a request path can carry: the known ones and one
\* that no registry knows.
ProviderIds == VALID_PROVIDERS \cup {"gitlab"}

isValidProvider(provider) == provider \in VALID_PROVIDERS

\* The identifiers the switch of getClient, of getAuthorizationServer and
\* of getProviderConfig has a case for; any other one throws "Unsupported
\* provider".
getClientCases == {"supabase", "github", "clerk", "google"}

getAuthorizationServerCases == {"supabase", "github", "clerk", "google"}

getProviderConfigCases == {"supabase", "github", "clerk", "google"}

\* process.env.<PROVIDER>_<NAME>
Env(provider, name) == provider \o "." \o name

getClient(provider) ==
  [ client_id |-> Env(provider, "CLIENT_ID"),
    client_secret |-> Env(provider, "CLIENT_SECRET"),
    token_endpoint_auth_method |->
      IF provider \in {"supabase", "clerk"}
        THEN "client_secret_basic"
        ELSE "client_secret_post" ]

getAuthorizationServer(provider) ==
  [ issuer |-> Env(provider, "OAUTH_ISSUER"),
    authorization_endpoint |-> Env(provider, "OAUTH_AUTHORIZATION_ENDPOINT"),
    token_endpoint |-> Env(provider, "OAUTH_TOKEN_ENDPOINT"),
    userinfo_endpoint |->
      IF provider \in {"clerk", "google"}
        THEN Env(provider, "OAUTH_USERINFO_ENDPOINT")
        ELSE None ]

getProviderConfig(provider) ==
  [ redirectUri |-> Env(provider, "REDIRECT_URI"),
    scope |->
      CASE provider = "supabase" -> None
        [] provider = "github" -> "read:user read:org"
        [] provider = "clerk" -> "email profile"
        [] OTHER -> "openid email profile",
    usePKCE |-> provider # "github",
    cookiePrefix |-> provider \o "_",
    userInfoEndpoint |->
      CASE provider = "supabase" -> "https://api.supabase.com/v1/oauth/userinfo"
        [] provider = "github" -> "https://api.github.com/user"
        [] OTHER -> None ]

\* The providers the hand-rolled routes accept.
HandProviders == {"supabase", "github"}

\* getOAuthConfig of the hand-rolled routes: the flat descriptor of the two
\* providers they know (PKCE for supabase, none for github).
getOAuthConfig(provider) ==
  [ clientId |-> Env(provider, "CLIENT_ID"),
    clientSecret |-> Env(provider, "CLIENT_SECRET"),
    authorizationEndpoint |-> Env(provider, "OAUTH_AUTHORIZATION_ENDPOINT"),
    tokenEndpoint |-> Env(provider, "OAUTH_TOKEN_ENDPOINT"),
    redirectUri |-> Env(provider, "REDIRECT_URI"),
    scope |-> IF provider = "github" THEN "read:user read:org" ELSE None,
    usePKCE |-> provider = "supabase",
    cookiePrefix |-> provider \o "_" ]

(***************************************************************************)
(* The cookie jar.                                                         *)
(***************************************************************************)
CookieKeys == {"oauth_state", "code_verifier", "access_token", "refresh_token"}

CookieNames == { (p \o "_") \o k : p \in VALID_PROVIDERS, k \in CookieKeys }

\* request.cookies.get(name)?.value
CookieGet(jar, name) == jar[name]

\* res.cookies.set(name, value): a Set-Cookie header of the response.  An
\* undefined value is serialized as the empty string.
CookieSet(name, value) ==
  [name |-> name, value |-> IF value = None THEN "" ELSE value]

\* res.cookies.delete(name): a Set-Cookie header that expires the cookie.
CookieDelete(name) == [name |-> name, value |-> None]

\* The browser applies the Set-Cookie headers of a response to its jar.
ApplySetCookie(jar, setCookie) ==
  [ n \in CookieNames |->
      IF \E c \in setCookie : c.name = n
        THEN (CHOOSE c \in setCookie : c.name = n).value
        ELSE jar[n] ]

\* JavaScript truthiness of a string-or-undefined value.
Truthy(v) == v # None /\ v # ""

(***************************************************************************)
(* PKCE / state generator: fresh values, the n-th draw.                    *)
(***************************************************************************)
generateState(n) == "st" \o ToString(n)

generateCodeVerifier(n) == "cv" \o ToString(n)

calculateCodeChallenge(codeVerifier) == "S256(" \o codeVerifier \o ")"

StateValues == { generateState(n) : n \in 1..MaxAttempts }

(***************************************************************************)
(* Inputs of a callback request and answers of the token endpoint.         *)
(***************************************************************************)
CodeParams == {None, "abc"}

StateParams == {None, "forged"} \cup StateValues

ErrorParams == {None, "access_denied"}

AccessTokens == {"tokA", "tokB"}

RefreshTokens == {"refA"}

\* A response body: not JSON at all, a JSON object without access_token
\* (for instance an OAuth error object), or a token payload.
TokenBodies ==
  { [json |-> FALSE, access_token |-> None, refresh_token |-> None],
    [json |-> TRUE, access_token |-> None, refresh_token |-> None] }
  \cup [ json : {TRUE}, access_token : AccessTokens,
         refresh_token : RefreshTokens \cup {None} ]

TokenStatuses == {200, 201, 202, 400}

TokenResponses == [ status : TokenStatuses, body : TokenBodies ]

NoResponse ==
  [ status |-> 0,
    body |-> [json |-> FALSE, access_token |-> None, refresh_token |-> None] ]

\* The fetch of a network request rejects: no answer at all.
NetworkFailure ==
  [ status |-> -1,
    body |-> [json |-> FALSE, access_token |-> None, refresh_token |-> None] ]

\* What the token endpoint can do with a refresh request.
RefreshResponses == TokenResponses \cup {NetworkFailure}

\* What the revocation endpoint can do with a revocation request: accept
\* it (200), report an error (a JSON error object or anything else), or
\* not answer.
RevocationResponses ==
  [ status : {200, 400},
    body : { [json |-> j, access_token |-> None, refresh_token |-> None] :
             j \in BOOLEAN } ]
  \cup {NetworkFailure}

\* A request to a provider endpoint: the form parameters of its body
\* (grant_type, code, redirect_uri, code_verifier, refresh_token, token,
\* client_id, client_secret) and its Authorization header.
NoRequest ==
  [ sent |-> FALSE, endpoint |-> None, grant_type |-> None, code |-> None,
    redirect_uri |-> None, code_verifier |-> None, authorization |-> None,
    client_id |-> None, client_secret |-> None,
    refresh_token |-> None, token |-> None ]

NoUrl ==
  [ client_id |-> None, redirect_uri |-> None, response_type |-> None,
    state |-> None, scope |-> None, code_challenge |-> None,
    code_challenge_method |-> None ]

\* JSON values of an identity payload: a string, a number (by its decimal
\* rendering) or an absent field.
Undef == [t |-> "undefined", v |-> "undefined"]

Str(s) == [t |-> "string", v |-> s]

Num(s) == [t |-> "number", v |-> s]

\* The body of a userinfo response, by the fields normalization looks at.
Payloads ==
  [ sub : {Undef, Str("u1")},
    id : {Undef, Num("123"), Str("x9")},
    preferred_username : {Undef, Str("p")},
    username : {Undef, Str("un")},
    login : {Undef, Str("octo")},
    picture : {Undef, Str("http://y")},
    avatar_url : {Undef, Str("http://x")} ]

EmptyPayload ==
  [ sub |-> Undef, id |-> Undef, preferred_username |-> Undef,
    username |-> Undef, login |-> Undef, picture |-> Undef,
    avatar_url |-> Undef ]

\* What the userinfo endpoint can do with a request: answer a JSON object,
\* answer something that is not JSON, or not answer (status -1).
UserinfoStatuses == {200, 201, 401}

UserinfoResponses ==
  [ status : UserinfoStatuses, json : {TRUE}, data : Payloads ]
  \cup [ status : UserinfoStatuses, json : {FALSE}, data : {EmptyPayload} ]
  \cup {[ status |-> -1, json |-> FALSE, data |-> EmptyPayload ]}

NoUserinfoResponse == [ status |-> 0, json |-> FALSE, data |-> EmptyPayload ]

\* A payload as GitHub answers it and one as an OpenID provider does.
GitHubShaped ==
  [EmptyPayload EXCEPT !.id = Num("123"), !.login = Str("octo"),
                       !.avatar_url = Str("http://x")]

OidcShaped ==
  [EmptyPayload EXCEPT !.sub = Str("u1"), !.preferred_username = Str("p"),
                       !.picture = Str("http://y")]

\* The answers the userinfo and token-info routes are exercised with.
RouteResponses ==
  { r \in UserinfoResponses :
      r.status # 201 /\ r.data \in {EmptyPayload, GitHubShaped, OidcShaped} }

\* The outcome of getUserInfo: whether it returned (ok) or threw, the
\* transport it used with its Accept header, how many requests it sent,
\* and the identity it returned.
NoIdentity ==
  [ ok |-> FALSE, transport |-> None, accept |-> None, requests |-> 0,
    id |-> Undef, username |-> Undef, avatar_url |-> Undef ]

\* A request and its outcome: the parameters and cookies the request
\* carried, the request the handler sent to the provider (tokenReq), how
\* many times it sent it (requests) and the answer it got, and the response
\* (status, body or redirect, Set-Cookie headers).  `replay` records that
\* the (provider, state, code) of a callback had already been exchanged
\* successfully before.
NoResult ==
  [ op |-> None, impl |-> None, provider |-> None,
    code |-> None, state |-> None, error |-> None,
    cookies |-> [c \in CookieNames |-> None],
    tokenReq |-> NoRequest, requests |-> 0, tokenResp |-> NoResponse,
    status |-> 0, message |-> None, redirect |-> None,
    authUrl |-> NoUrl, setCookie |-> {}, replay |-> FALSE,
    userinfoEnv |-> FALSE, userResp |-> NoUserinfoResponse,
    identity |-> NoIdentity, valid |-> None, log |-> {} ]

(***************************************************************************)
(* oauth4webapi, as the callback route uses it.                            *)
(***************************************************************************)
\* Faulty variant: the `state` parameter is not compared.
validateAuthResponse_NoState(state, error, expectedState) ==
  IF error # None THEN "throws" ELSE "ok"

\* validateAuthResponse(as, client, parameters, expectedState): throws when
\* the `state` parameter is not the expected one, and then when the response
\* is an authorization error response; otherwise returns the parameters.
validateAuthResponse(state, error, expectedState) ==
  IF state # expectedState THEN "throws"
  ELSE IF error # None THEN "throws"
  ELSE "ok"

\* `Basic ${btoa(`${id}:${secret}`)}`
BasicBtoa(id, secret) == "Basic base64(" \o id \o ":" \o secret \o ")"

\* The application/x-www-form-urlencoded encoding ClientSecretBasic applies
\* to the client id and to the secret (RFC 6749, 2.3.1).  It rewrites every
\* character but letters and digits, so it changes the credentials of the
\* model, which hold a '.', as it changes a UUID client id.
formUrlEncode(s) == "urlenc(" \o s \o ")"

\* ClientSecretBasic: Authorization: Basic base64(urlenc(id):urlenc(secret));
\* ClientSecretPost: client_id and client_secret in the body.
ClientAuth(client) ==
  IF client.token_endpoint_auth_method = "client_secret_post"
    THEN [ authorization |-> None,
           client_id |-> client.client_id,
           client_secret |-> client.client_secret ]
    ELSE [ authorization |->
             BasicBtoa(formUrlEncode(client.client_id),
                       formUrlEncode(client.client_secret)),
           client_id |-> None,
           client_secret |-> None ]

\* Faulty variant: the headers of every provider pass through.
customFetch_PassThrough(provider, client, req) == req

\* The customFetch hook of the callback route: for supabase the headers are
\* replaced, for every other provider they pass through.
customFetch(provider, client, req) ==
  IF provider = "supabase"
    THEN [req EXCEPT !.authorization =
            BasicBtoa(client.client_id, client.client_secret)]
    ELSE req

\* What the customFetch hook of the callback route and of the disconnect
\* route writes to the log before it sends the request: the options of the
\* request as oauth4webapi built them (the Authorization header of
\* ClientSecretBasic, the client_secret of ClientSecretPost in the body),
\* and, for every provider, `Basic ${btoa(`${client_id}:${client_secret}`)}`.
customFetchLog(client) ==
  LET auth == ClientAuth(client)
  IN {BasicBtoa(client.client_id, client.client_secret)}
       \cup ({auth.authorization, auth.client_secret} \ {None})

\* Faulty variant: the code verifier is left out of the request.
authorizationCodeGrantRequest_NoVerifier(provider, code, codeVerifier) ==
  LET client == getClient(provider)
      auth == ClientAuth(client)
  IN customFetch(provider, client,
       [NoRequest EXCEPT
          !.sent = TRUE,
          !.endpoint = getAuthorizationServer(provider).token_endpoint,
          !.grant_type = "authorization_code",
          !.code = code,
          !.redirect_uri = getProviderConfig(provider).redirectUri,
          !.authorization = auth.authorization,
          !.client_id = auth.client_id,
          !.client_secret = auth.client_secret])

\* authorizationCodeGrantRequest(as, client, clientAuth, params, redirectUri,
\* codeVerifier || nopkce, {customFetch})
authorizationCodeGrantRequest(provider, code, codeVerifier) ==
  LET client == getClient(provider)
      auth == ClientAuth(client)
  IN customFetch(provider, client,
       [ sent |-> TRUE,
         endpoint |-> getAuthorizationServer(provider).token_endpoint,
         grant_type |-> "authorization_code",
         code |-> code,
         redirect_uri |-> getProviderConfig(provider).redirectUri,
         code_verifier |-> codeVerifier,
         authorization |-> auth.authorization,
         client_id |-> auth.client_id,
         client_secret |-> auth.client_secret,
         refresh_token |-> None,
         token |-> None ])

\* Faulty variant: the 201 of supabase is not rewritten.
TolerateStatus_None(provider, status) == status

\* The status the callback route hands to processAuthorizationCodeResponse:
\* supabase answers 201, which is rewritten to 200.
TolerateStatus(provider, status) ==
  IF provider = "supabase" /\ status = 201 THEN 200 ELSE status

\* processAuthorizationCodeResponse: anything but status 200 with a JSON
\* object carrying a string access_token throws.
processAuthorizationCodeResponse(status, body) ==
  status = 200 /\ body.json /\ Truthy(body.access_token)

\* response.ok
ResponseOk(status) == status >= 200 /\ status <= 299

(***************************************************************************)
(* Results of the handlers.                                                *)
(***************************************************************************)
\* Faulty variant: an error response also deletes the tokens of the provider.
Json_ForgetsTokens(res, status, message) ==
  [res EXCEPT !.status = status, !.message = message,
              !.setCookie =
                IF status >= 400 /\ res.provider \in VALID_PROVIDERS
                  THEN { CookieDelete(res.provider \o "_access_token"),
                         CookieDelete(res.provider \o "_refresh_token") }
                  ELSE @]

\* NextResponse.json({error: message}, {status})
Json(res, status, message) ==
  [res EXCEPT !.status = status, !.message = message]

\* NextResponse.redirect(url)
Redirect(res, url) == [res EXCEPT !.status = 307, !.redirect = url]

successUrl(provider) == "/oauth/" \o provider \o "/success"

\* Faulty variant: the state cookie is not cleared.
StoreTokens_KeepState(prefix, usePKCE, body) ==
  {CookieSet(prefix \o "access_token", body.access_token)}
  \cup (IF Truthy(body.refresh_token)
          THEN {CookieSet(prefix \o "refresh_token", body.refresh_token)}
          ELSE {})
  \cup (IF usePKCE THEN {CookieDelete(prefix \o "code_verifier")} ELSE {})

\* Faulty variant: the refresh token of the payload is not stored.
StoreTokens_NoRefresh(prefix, usePKCE, body) ==
  {CookieSet(prefix \o "access_token", body.access_token)}
  \cup {CookieDelete(prefix \o "oauth_state")}
  \cup (IF usePKCE THEN {CookieDelete(prefix \o "code_verifier")} ELSE {})

\* Store tokens in cookies, clear temporary cookies.
StoreTokens(prefix, usePKCE, body) ==
  {CookieSet(prefix \o "access_token", body.access_token)}
  \cup (IF Truthy(body.refresh_token)
          THEN {CookieSet(prefix \o "refresh_token", body.refresh_token)}
          ELSE {})
  \cup {CookieDelete(prefix \o "oauth_state")}
  \cup (IF usePKCE THEN {CookieDelete(prefix \o "code_verifier")} ELSE {})

\* Faulty variant: the code verifier is not stored.
StoreAttempt_StateOnly(prefix, state, codeVerifier) ==
  {CookieSet(prefix \o "oauth_state", state)}

\* Store state in cookies, and the PKCE code verifier if used.
StoreAttempt(prefix, state, codeVerifier) ==
  {CookieSet(prefix \o "oauth_state", state)}
  \cup (IF Truthy(codeVerifier)
          THEN {CookieSet(prefix \o "code_verifier", codeVerifier)}
          ELSE {})

(***************************************************************************)
(* GET /api/oauth/[provider]/authorize                                     *)
(***************************************************************************)
\* Faulty variant: the scope is left out of the URL.
AuthorizationUrl_NoScope(clientId, redirectUri, scope, usePKCE, state, codeVerifier) ==
  [ client_id |-> clientId,
    redirect_uri |-> redirectUri,
    response_type |-> "code",
    state |-> state,
    scope |-> None,
    code_challenge |->
      IF usePKCE THEN calculateCodeChallenge(codeVerifier) ELSE None,
    code_challenge_method |-> IF usePKCE THEN "S256" ELSE None ]

\* The authorization URL: client_id, redirect_uri, response_type, state,
\* scope if configured, code_challenge and its method if PKCE is used.
AuthorizationUrl(clientId, redirectUri, scope, usePKCE, state, codeVerifier) ==
  [ client_id |-> clientId,
    redirect_uri |-> redirectUri,
    response_type |-> "code",
    state |-> state,
    scope |-> IF Truthy(scope) THEN scope ELSE None,
    code_challenge |->
      IF usePKCE THEN calculateCodeChallenge(codeVerifier) ELSE None,
    code_challenge_method |-> IF usePKCE THEN "S256" ELSE None ]

\* The route built on the registry of oauth-config.ts.  n is the position
\* of the random generator.
AuthorizeLib(jar, n, provider) ==
  LET req == [NoResult EXCEPT !.op = "authorize", !.impl = "lib",
                              !.provider = provider, !.cookies = jar]
  IN IF ~isValidProvider(provider)
       THEN Json(req, 400, "Invalid provider")
       ELSE
         LET client == getClient(provider)
             authorizationServer == getAuthorizationServer(provider)
             providerConfig == getProviderConfig(provider)
             state == generateState(n)
             codeVerifier == IF providerConfig.usePKCE
                               THEN generateCodeVerifier(n) ELSE None
         IN [Redirect(req, authorizationServer.authorization_endpoint)
               EXCEPT !.authUrl =
                        AuthorizationUrl(client.client_id,
                          providerConfig.redirectUri, providerConfig.scope,
                          providerConfig.usePKCE, state, codeVerifier),
                      !.setCookie =
                        StoreAttempt(providerConfig.cookiePrefix, state,
                                     codeVerifier),
                      \* the authorization URL, the state, the verifier
                      !.log = {client.client_id, state}
                                \cup ({codeVerifier} \ {None})]

\* The hand-rolled route: supabase and github only, getOAuthConfig.
AuthorizeHand(jar, n, provider) ==
  LET req == [NoResult EXCEPT !.op = "authorize", !.impl = "hand",
                              !.provider = provider, !.cookies = jar]
  IN IF provider \notin HandProviders
       THEN Json(req, 400, "Invalid provider")
       ELSE
         LET config == getOAuthConfig(provider)
             state == generateState(n)
             codeVerifier == IF config.usePKCE
                               THEN generateCodeVerifier(n) ELSE None
         IN [Redirect(req, config.authorizationEndpoint)
               EXCEPT !.authUrl =
                        AuthorizationUrl(config.clientId, config.redirectUri,
                          config.scope, config.usePKCE, state, codeVerifier),
                      !.setCookie =
                        StoreAttempt(config.cookiePrefix, state, codeVerifier)]

(***************************************************************************)
(* GET /api/oauth/[provider]/callback                                      *)
(***************************************************************************)
\* Faulty variant: the verifier is never required.
MissingVerifier_Never(usePKCE, codeVerifier) == FALSE

\* if (providerConfig.usePKCE) { ... if (!codeVerifier) return 400 }
MissingVerifier(usePKCE, codeVerifier) == usePKCE /\ ~Truthy(codeVerifier)

\* The route built on oauth4webapi.
CallbackLib(jar, provider, code, state, error, resp) ==
  LET req == [NoResult EXCEPT !.op = "callback", !.impl = "lib",
                              !.provider = provider, !.code = code,
                              !.state = state, !.error = error,
                              !.cookies = jar]
  IN IF ~isValidProvider(provider)
       THEN Json(req, 400, "Invalid provider")
       ELSE
         LET providerConfig == getProviderConfig(provider)
             prefix == providerConfig.cookiePrefix
             storedState == CookieGet(jar, prefix \o "oauth_state")
             codeVerifier == IF providerConfig.usePKCE
                               THEN CookieGet(jar, prefix \o "code_verifier")
                               ELSE None
             tokenReq == authorizationCodeGrantRequest(provider, code,
                           IF Truthy(codeVerifier) THEN codeVerifier ELSE None)
             sent == [req EXCEPT !.tokenReq = tokenReq, !.requests = 1,
                                 !.tokenResp = resp,
                                 !.log = customFetchLog(getClient(provider))]
         IN IF ~Truthy(storedState)
              THEN Json(req, 400, "Missing stored state")
            ELSE IF validateAuthResponse(state, error, storedState) = "throws"
              THEN Json(req, 400, "Authorization validation failed")
            ELSE IF ~Truthy(code)
              THEN Json(req, 400, "Missing authorization code")
            ELSE IF MissingVerifier(providerConfig.usePKCE, codeVerifier)
              THEN Json(req, 400, "Missing code verifier")
            ELSE IF ~processAuthorizationCodeResponse(
                       TolerateStatus(provider, resp.status), resp.body)
              THEN Json(sent, 500, "Failed to exchange code for token")
            ELSE [Redirect(sent, successUrl(provider))
                    EXCEPT !.setCookie =
                      StoreTokens(prefix, providerConfig.usePKCE, resp.body)]

\* Faulty variant: the comparison with the stored state is forgotten.
StateMismatch_NoCompare(state, storedState) == ~Truthy(storedState)

\* if (!storedState || state !== storedState) of the hand-rolled route
StateMismatch(state, storedState) ==
  ~Truthy(storedState) \/ state # storedState

\* Faulty variant: && written for ||.
MissingParams_And(code, state) == ~Truthy(code) /\ ~Truthy(state)

\* if (!code || !state) of the hand-rolled route
MissingParams(code, state) == ~Truthy(code) \/ ~Truthy(state)

\* The token request of the hand-rolled route.
HandTokenRequest(provider, config, code, codeVerifier) ==
  [ sent |-> TRUE,
    endpoint |-> config.tokenEndpoint,
    grant_type |-> "authorization_code",
    code |-> code,
    redirect_uri |-> config.redirectUri,
    code_verifier |-> IF config.usePKCE THEN codeVerifier ELSE None,
    authorization |->
      IF provider = "supabase"
        THEN BasicBtoa(config.clientId, config.clientSecret) ELSE None,
    client_id |-> IF provider = "github" THEN config.clientId ELSE None,
    client_secret |-> IF provider = "github" THEN config.clientSecret ELSE None,
    refresh_token |-> None,
    token |-> None ]

\* The hand-rolled route.
CallbackHand(jar, provider, code, state, error, resp) ==
  LET req == [NoResult EXCEPT !.op = "callback", !.impl = "hand",
                              !.provider = provider, !.code = code,
                              !.state = state, !.error = error,
                              !.cookies = jar]
  IN IF provider \notin HandProviders
       THEN Json(req, 400, "Invalid provider")
       ELSE
         LET config == getOAuthConfig(provider)
             prefix == config.cookiePrefix
             storedState == CookieGet(jar, prefix \o "oauth_state")
             codeVerifier == IF config.usePKCE
                               THEN CookieGet(jar, prefix \o "code_verifier")
                               ELSE None
             tokenReq == HandTokenRequest(provider, config, code, codeVerifier)
             sent == [req EXCEPT !.tokenReq = tokenReq, !.requests = 1,
                                 !.tokenResp = resp]
         IN IF MissingParams(code, state)
              THEN Json(req, 400, "Missing code or state")
            ELSE IF StateMismatch(state, storedState)
              THEN Json(req, 400, "Invalid state")
            ELSE IF config.usePKCE /\ ~Truthy(codeVerifier)
              THEN Json(req, 400, "Missing code verifier")
            ELSE IF resp = NetworkFailure
              \* fetch rejects and nothing catches it
              THEN Json(sent, 500, "Internal Server Error")
            ELSE IF ~ResponseOk(resp.status)
              THEN Json(sent, 400, "Failed to exchange code for token")
            ELSE IF ~resp.body.json
              \* tokenResponse.json() rejects and nothing catches it
              THEN Json(sent, 500, "Internal Server Error")
            ELSE [Redirect(sent, successUrl(provider))
                    EXCEPT !.setCookie =
                      StoreTokens(prefix, config.usePKCE, resp.body)]

\* The handler of one implementation.
CallbackOf(i, jar, provider, code, state, error, resp) ==
  IF i = "lib" THEN CallbackLib(jar, provider, code, state, error, resp)
                  ELSE CallbackHand(jar, provider, code, state, error, resp)

(***************************************************************************)
(* POST /api/oauth/[provider]/refresh                                      *)
(***************************************************************************)
\* refreshTokenGrantRequest(as, client, clientAuth, refreshToken): no
\* customFetch here, the request leaves as oauth4webapi builds it.
refreshTokenGrantRequest(provider, refreshToken) ==
  LET auth == ClientAuth(getClient(provider))
  IN [NoRequest EXCEPT
        !.sent = TRUE,
        !.endpoint = getAuthorizationServer(provider).token_endpoint,
        !.grant_type = "refresh_token",
        !.refresh_token = refreshToken,
        !.authorization = auth.authorization,
        !.client_id = auth.client_id,
        !.client_secret = auth.client_secret]

\* processRefreshTokenResponse: anything but status 200 with a JSON object
\* carrying a string access_token throws.
processRefreshTokenResponse(status, body) ==
  status = 200 /\ body.json /\ Truthy(body.access_token)

\* Faulty variant: the refresh token is written whatever the payload holds.
UpdateTokens_Always(prefix, body) ==
  { CookieSet(prefix \o "access_token", body.access_token),
    CookieSet(prefix \o "refresh_token", body.refresh_token) }

\* Update cookies with new tokens; the refresh token only if a new one was
\* provided.
UpdateTokens(prefix, body) ==
  {CookieSet(prefix \o "access_token", body.access_token)}
  \cup (IF Truthy(body.refresh_token)
          THEN {CookieSet(prefix \o "refresh_token", body.refresh_token)}
          ELSE {})

\* Faulty variant: a refresh that failed is sent a second time.
RefreshRequests_Retry(resp) == IF ResponseOk(resp.status) THEN 1 ELSE 2

\* OAuthClient.refreshAccessToken sends its request once, whatever the
\* answer: an error is logged and thrown again.
RefreshRequests(resp) == 1

\* The route built on oauth4webapi.
RefreshLib(jar, provider, resp) ==
  LET req == [NoResult EXCEPT !.op = "refresh", !.impl = "lib",
                              !.provider = provider, !.cookies = jar]
  IN IF ~isValidProvider(provider)
       THEN Json(req, 400, "Invalid provider")
       ELSE
         LET prefix == getProviderConfig(provider).cookiePrefix
             refreshToken == CookieGet(jar, prefix \o "refresh_token")
             sent == [req EXCEPT
                        !.tokenReq =
                          refreshTokenGrantRequest(provider, refreshToken),
                        !.requests = RefreshRequests(resp),
                        !.tokenResp = resp]
         IN IF ~Truthy(refreshToken)
              THEN Json(req, 401, "No refresh token available")
            ELSE IF ~processRefreshTokenResponse(resp.status, resp.body)
              THEN Json(sent, 500, "Failed to refresh token")
            ELSE [Json(sent, 200, "Token refreshed successfully")
                    EXCEPT !.setCookie = UpdateTokens(prefix, resp.body)]

\* PROVIDER_ENDPOINTS[provider].refreshToken of the hand-rolled client
RefreshEndpoint(provider) ==
  IF provider = "supabase"
    THEN "https://api.supabase.com/v1/oauth/token"
    ELSE "https://github.com/login/oauth/access_token"

\* The refresh request of the hand-rolled client.
HandRefreshRequest(provider, config, refreshToken) ==
  [NoRequest EXCEPT
     !.sent = TRUE,
     !.endpoint = RefreshEndpoint(provider),
     !.grant_type = "refresh_token",
     !.refresh_token = refreshToken,
     !.authorization =
       IF provider = "supabase"
         THEN BasicBtoa(config.clientId, config.clientSecret) ELSE None,
     !.client_id = IF provider = "github" THEN config.clientId ELSE None,
     !.client_secret =
       IF provider = "github" THEN config.clientSecret ELSE None]

\* The hand-rolled route.  Its client throws when fetch rejects, when the
\* answer is not ok and when the body is not JSON; the route catches.
RefreshHand(jar, provider, resp) ==
  LET req == [NoResult EXCEPT !.op = "refresh", !.impl = "hand",
                              !.provider = provider, !.cookies = jar]
  IN IF provider \notin HandProviders
       THEN Json(req, 400, "Invalid provider")
       ELSE
         LET config == getOAuthConfig(provider)
             prefix == config.cookiePrefix
             refreshToken == CookieGet(jar, prefix \o "refresh_token")
             sent == [req EXCEPT
                        !.tokenReq =
                          HandRefreshRequest(provider, config, refreshToken),
                        !.requests = RefreshRequests(resp),
                        !.tokenResp = resp]
         IN IF ~Truthy(refreshToken)
              THEN Json(req, 401, "No refresh token available")
            ELSE IF ~ResponseOk(resp.status) \/ ~resp.body.json
              THEN Json(sent, 500, "Failed to refresh token")
            ELSE [Json(sent, 200, "Token refreshed successfully")
                    EXCEPT !.setCookie = UpdateTokens(prefix, resp.body)]

\* The handler of one implementation.
RefreshOf(i, jar, provider, resp) ==
  IF i = "lib" THEN RefreshLib(jar, provider, resp)
               ELSE RefreshHand(jar, provider, resp)

(***************************************************************************)
(* POST /api/disconnect                                                    *)
(***************************************************************************)
\* revocation_endpoint of the authorization server metadata, as the later
\* registry (six providers) declares it: google has none.  The registry of
\* oauth-config.ts declares none for any provider.
RevocationEndpoint(provider) ==
  IF provider \in {"supabase", "github", "clerk"}
    THEN Env(provider, "OAUTH_REVOCATION_ENDPOINT")
    ELSE None

\* revocationRequest(as, client, clientAuth, accessToken, {customFetch}),
\* with the same customFetch hook as the callback route.
revocationRequest(provider, accessToken) ==
  LET client == getClient(provider)
      auth == ClientAuth(client)
  IN customFetch(provider, client,
       [NoRequest EXCEPT
          !.sent = TRUE,
          !.endpoint = RevocationEndpoint(provider),
          !.token = accessToken,
          !.authorization = auth.authorization,
          !.client_id = auth.client_id,
          !.client_secret = auth.client_secret])

\* processRevocationResponse: status 200 is the only success.
processRevocationResponse(status) == status = 200

\* cookieStore.delete of the access token and of the refresh token
ForgetTokens(prefix) ==
  { CookieDelete(prefix \o "access_token"),
    CookieDelete(prefix \o "refresh_token") }

\* The route built on oauth4webapi.  The provider comes from the request
\* body and is not validated: getProviderConfig throws for an unknown one,
\* revocationRequest throws without a revocation endpoint or when fetch
\* rejects, and nothing catches, so the framework answers 500.
DisconnectLib(jar, provider, resp) ==
  LET req == [NoResult EXCEPT !.op = "disconnect", !.impl = "lib",
                              !.provider = provider, !.cookies = jar]
  IN IF provider \notin getProviderConfigCases
       THEN Json(req, 500, "Internal Server Error")
       ELSE
         LET prefix == getProviderConfig(provider).cookiePrefix
             accessToken == CookieGet(jar, prefix \o "access_token")
             sent == [req EXCEPT
                        !.tokenReq = revocationRequest(provider, accessToken),
                        !.requests = 1,
                        !.tokenResp = resp,
                        !.log = customFetchLog(getClient(provider))]
         IN IF ~Truthy(accessToken)
              THEN Json(req, 400, "No access token found for provider")
            ELSE IF RevocationEndpoint(provider) = None
              THEN Json(req, 500, "Internal Server Error")
            ELSE IF resp = NetworkFailure
              THEN Json(sent, 500, "Internal Server Error")
            ELSE IF ~processRevocationResponse(resp.status)
              THEN Json(sent, 500, "Failed to revoke token")
            ELSE [Json(sent, 200, "success")
                    EXCEPT !.setCookie = ForgetTokens(prefix)]

\* The hand-rolled route: no request to the provider, the cookies of
\* supabase and the access token of github are deleted, success always.
DisconnectHand(jar, provider) ==
  LET req == [NoResult EXCEPT !.op = "disconnect", !.impl = "hand",
                              !.provider = provider, !.cookies = jar]
  IN [Json(req, 200, "success") EXCEPT
        !.setCookie =
          IF provider = "supabase"
            THEN { CookieDelete("supabase_access_token"),
                   CookieDelete("supabase_refresh_token") }
          ELSE IF provider = "github"
            THEN {CookieDelete("github_access_token")}
          ELSE {}]

\* The handler of one implementation.
DisconnectOf(i, jar, provider, resp) ==
  IF i = "lib" THEN DisconnectLib(jar, provider, resp)
               ELSE DisconnectHand(jar, provider)

\* The home page shows a provider as connected when its access token
\* cookie is set.
isConnected(jar, provider) == Truthy(jar[provider \o "_access_token"])

(***************************************************************************)
(* OAuthClient: getUserInfo, normalizeUserInfo, validateToken.             *)
(***************************************************************************)
\* typeof value === "string" ? value : undefined
getString(value) == IF value.t = "string" THEN value ELSE Undef

\* String(value)
JsString(value) == Str(value.v)

\* JavaScript truthiness of a JSON value.
JsTruthy(value) ==
  /\ value.t # "undefined"
  /\ value.v # ""
  /\ ~(value.t = "number" /\ value.v = "0")

\* a || b
Or(a, b) == IF JsTruthy(a) THEN a ELSE b

\* normalizeUserInfo, the same in both clients: one case for supabase, one
\* for github, a default for every other provider.  email and name are
\* passed through getString and are left out.
normalizeUserInfo(provider, data) ==
  CASE provider = "supabase" ->
         [ id |-> Or(Or(getString(data.sub), getString(data.id)), Str("")),
           username |-> Or(getString(data.preferred_username),
                           getString(data.username)),
           avatar_url |-> Or(getString(data.picture),
                             getString(data.avatar_url)) ]
    [] provider = "github" ->
         [ id |-> JsString(data.id),
           username |-> getString(data.login),
           avatar_url |-> getString(data.avatar_url) ]
    [] OTHER ->
         [ id |-> JsString(Or(Or(data.id, data.sub), Str(""))),
           username |-> Or(Or(getString(data.username), getString(data.login)),
                           getString(data.preferred_username)),
           avatar_url |-> Or(getString(data.avatar_url),
                             getString(data.picture)) ]

\* getUserInfo returns the normalized payload.
Returned(transport, accept, provider, data) ==
  LET info == normalizeUserInfo(provider, data)
  IN [ ok |-> TRUE, transport |-> transport, accept |-> accept,
       requests |-> 1, id |-> info.id, username |-> info.username,
       avatar_url |-> info.avatar_url ]

\* getUserInfo throws after the request it sent.
Thrown(transport, accept) ==
  [NoIdentity EXCEPT !.transport = transport, !.accept = accept,
                     !.requests = 1]

\* processUserInfoResponse: anything but status 200 with a JSON object
\* whose `sub` is a non-empty string throws.
processUserInfoResponse(resp) ==
  /\ resp.status = 200
  /\ resp.json
  /\ resp.data.sub.t = "string" /\ resp.data.sub.v # ""

\* The Accept header of the provider-specific REST call.
AcceptHeader(provider) ==
  IF provider = "github" THEN "application/vnd.github+json"
                         ELSE "application/json"

\* Faulty variant: the answer's status is not looked at.
RestCall_AnyStatus(provider, resp) ==
  IF ~resp.json
    THEN Thrown("rest", AcceptHeader(provider))
    ELSE Returned("rest", AcceptHeader(provider), provider, resp.data)

\* fetch(endpoint, {headers}); if (!response.ok) throw; response.json()
RestCall(provider, resp) ==
  IF ~ResponseOk(resp.status) \/ ~resp.json
    THEN Thrown("rest", AcceptHeader(provider))
    ELSE Returned("rest", AcceptHeader(provider), provider, resp.data)

\* getUserInfo of the client built on oauth4webapi.  envSet: the
\* <PROVIDER>_OAUTH_USERINFO_ENDPOINT variable of the environment is set.
getUserInfoLib(provider, envSet, resp) ==
  LET userinfo_endpoint ==
        IF envSet THEN getAuthorizationServer(provider).userinfo_endpoint
                  ELSE None
  IN IF Truthy(userinfo_endpoint)
       THEN IF processUserInfoResponse(resp)
              THEN Returned("userinfo", "application/json", provider,
                            resp.data)
              ELSE Thrown("userinfo", "application/json")
     ELSE IF Truthy(getProviderConfig(provider).userInfoEndpoint)
       THEN RestCall(provider, resp)
     ELSE NoIdentity

\* getUserInfo of the hand-rolled client: PROVIDER_ENDPOINTS[provider].userInfo
getUserInfoHand(provider, resp) == RestCall(provider, resp)

getUserInfo(i, provider, envSet, resp) ==
  IF i = "lib" THEN getUserInfoLib(provider, envSet, resp)
               ELSE getUserInfoHand(provider, resp)

\* Faulty variant: the exception of getUserInfo is not caught.
validateToken_Rethrows(i, provider, envSet, resp) ==
  IF getUserInfo(i, provider, envSet, resp).ok THEN "true" ELSE "throws"

\* try { await this.getUserInfo(); return true } catch { return false }
validateToken(i, provider, envSet, resp) ==
  IF getUserInfo(i, provider, envSet, resp).ok THEN "true" ELSE "false"

(***************************************************************************)
(* GET /api/oauth/[provider]/userinfo and GET /api/oauth/[provider]/token-info *)
(***************************************************************************)
\* provider === "supabase" ? "supabase_access_token" : "github_access_token"
AccessTokenCookie(provider) ==
  IF provider = "supabase" THEN "supabase_access_token"
                           ELSE "github_access_token"

\* A request that carries the access token as a bearer token.
BearerRequest(endpoint, accessToken) ==
  [NoRequest EXCEPT !.sent = TRUE, !.endpoint = endpoint,
                    !.authorization = "Bearer " \o accessToken]

\* The endpoint getUserInfo of the oauth4webapi client asks.
UserinfoEndpointOf(provider) ==
  IF Truthy(getAuthorizationServer(provider).userinfo_endpoint)
    THEN getAuthorizationServer(provider).userinfo_endpoint
    ELSE getProviderConfig(provider).userInfoEndpoint

\* The userinfo route: providers by isValidProvider, the client built on
\* oauth4webapi.
UserinfoLib(jar, provider, resp) ==
  LET req == [NoResult EXCEPT !.op = "userinfo", !.impl = "lib",
                              !.provider = provider, !.cookies = jar,
                              !.userinfoEnv = TRUE]
  IN IF ~isValidProvider(provider)
       THEN Json(req, 400, "Invalid provider")
       ELSE
         LET accessToken == CookieGet(jar, AccessTokenCookie(provider))
             identity == getUserInfoLib(provider, TRUE, resp)
             sent == [req EXCEPT
                        !.tokenReq = BearerRequest(UserinfoEndpointOf(provider),
                                                   accessToken),
                        !.requests = identity.requests,
                        !.userResp = resp,
                        !.identity = identity]
         IN IF ~Truthy(accessToken)
              THEN Json(req, 401, "Not authenticated with this provider")
            ELSE IF ~identity.ok
              THEN Json(sent, 500, "Failed to fetch user information")
            ELSE Json(sent, 200, "userInfo")

\* PROVIDER_ENDPOINTS[provider].tokenInfo of the hand-rolled client
TokenInfoEndpoint(provider) ==
  IF provider = "supabase"
    THEN "https://api.supabase.com/v1/oauth/token/info" ELSE None

\* The token-info route: supabase and github only, the hand-rolled client.
\* getTokenInfo returns null without an endpoint and throws when the answer
\* is not ok or not JSON.
TokenInfoHand(jar, provider, resp) ==
  LET req == [NoResult EXCEPT !.op = "token-info", !.impl = "hand",
                              !.provider = provider, !.cookies = jar]
  IN IF provider \notin HandProviders
       THEN Json(req, 400, "Invalid provider")
       ELSE
         LET accessToken == CookieGet(jar, AccessTokenCookie(provider))
             sent == [req EXCEPT
                        !.tokenReq = BearerRequest(TokenInfoEndpoint(provider),
                                                   accessToken),
                        !.requests = 1,
                        !.userResp = resp]
         IN IF ~Truthy(accessToken)
              THEN Json(req, 401, "Not authenticated with this provider")
            ELSE IF TokenInfoEndpoint(provider) = None
              THEN Json(req, 404, "Token info not available for this provider")
            ELSE IF ~ResponseOk(resp.status) \/ ~resp.json
              THEN Json(sent, 500, "Failed to fetch token information")
            ELSE Json(sent, 200, "tokenInfo")

(***************************************************************************)
(* ConnectButton and the success page of the popup.                        *)
(***************************************************************************)
\* window.location.origin of the application
Origin == "https://app.example"

\* The origins a message event can come from.
Origins == {Origin, "https://evil.example"}

\* event.data of the message events the page can receive
MessageData ==
  [ type : {"oauth-success", "other"}, provider : HandProviders ]

\* A message event as the listener sees it: event.origin, event.data, and
\* whether the success page of the popup posted it.
MessageEvents ==
  [ origin : Origins, data : MessageData, fromSuccessPage : {FALSE} ]

NoMessage ==
  [ origin |-> None, data |-> [type |-> None, provider |-> None],
    fromSuccessPage |-> FALSE ]

\* What a handler of the button can change: the state of the component,
\* the popup, the listener, the interval, the page.
NoSnapshot ==
  [ isConnecting |-> FALSE, popup |-> "none", listener |-> FALSE,
    interval |-> FALSE, reloads |-> 0, location |-> "page" ]

\* The button before any page is rendered.  popup is "none" before
\* window.open, "null" when window.open returned null, "open" or "closed"
\* for the window it returned.
NoButton ==
  [ provider |-> None, usePopup |-> FALSE, isConnected |-> FALSE,
    isConnecting |-> FALSE, popup |-> "none", listener |-> FALSE,
    interval |-> FALSE, reloads |-> 0, location |-> "page", clicks |-> 0,
    event |-> None, msg |-> NoMessage, targetOrigin |-> None,
    prev |-> NoSnapshot ]

Snapshot(b) ==
  [ isConnecting |-> b.isConnecting, popup |-> b.popup,
    listener |-> b.listener, interval |-> b.interval,
    reloads |-> b.reloads, location |-> b.location ]

\* popup?.close()
ClosePopup(b) ==
  IF b.popup = "open" THEN [b EXCEPT !.popup = "closed"] ELSE b

\* window.location.reload(): the page is rendered again, the state of the
\* component, its listener and its interval are gone; isConnected comes
\* from the cookies of the new request.
Reload(b, connected) ==
  [b EXCEPT !.isConnecting = FALSE, !.listener = FALSE, !.interval = FALSE,
            !.reloads = @ + 1, !.isConnected = connected]

\* Faulty variant: the origin of the event is not compared.
handleMessage_AnyOrigin(b, event, connected) ==
  IF event.data.type = "oauth-success" /\ event.data.provider = b.provider
    THEN Reload(ClosePopup(b), connected)
    ELSE b

\* handleMessage of handleConnect
handleMessage(b, event, connected) ==
  IF event.origin # Origin THEN b
  ELSE IF event.data.type = "oauth-success"
            /\ event.data.provider = b.provider
    THEN Reload(ClosePopup(b), connected)
    ELSE b

\* handleConnect; opened is what window.open returned ("open", or "null"
\* when the browser blocked the popup).
handleConnect(b, opened) ==
  IF ~b.usePopup
    THEN [b EXCEPT !.location = "authorize"]
    ELSE [b EXCEPT !.isConnecting = TRUE, !.popup = opened,
                   !.listener = TRUE, !.interval = TRUE]

\* The callback of setInterval: popup?.closed is undefined for null.
checkPopup(b) ==
  IF b.popup = "closed"
    THEN [b EXCEPT !.isConnecting = FALSE, !.listener = FALSE,
                   !.interval = FALSE]
    ELSE b

\* OAuthSuccess: window.opener.postMessage({type, provider},
\* window.location.origin); the event carries the origin of the popup,
\* which is the origin of the application.
OAuthSuccess(provider) ==
  [ targetOrigin |-> Origin,
    event |-> [ origin |-> Origin,
                data |-> [type |-> "oauth-success", provider |-> provider],
                fromSuccessPage |-> TRUE ] ]

(***************************************************************************)
(* The state machine.                                                      *)
(***************************************************************************)
Impls == {"lib", "hand"}

Init ==
  /\ impl \in Impls
  /\ cookies = [c \in CookieNames |-> None]
  /\ nonce = 1
  /\ steps = 0
  /\ last = NoResult
  /\ consumed = {}
  /\ button = NoButton

\* The handler redirected: to the provider (authorize) or to the success
\* page (callback).
Succeeded(res) == res.status = 307

\* The browser receives the response.
Handle(res) ==
  /\ cookies' = ApplySetCookie(cookies, res.setCookie)
  /\ last' = res
  /\ steps' = steps + 1
  /\ UNCHANGED button

AuthorizeStart(provider) ==
  /\ steps < MaxSteps
  /\ nonce <= MaxAttempts
  /\ LET res == IF impl = "lib" THEN AuthorizeLib(cookies, nonce, provider)
                                ELSE AuthorizeHand(cookies, nonce, provider)
     IN /\ Handle(res)
        /\ nonce' = IF Succeeded(res) THEN nonce + 1 ELSE nonce
  /\ UNCHANGED <<impl, consumed>>

\* The token endpoint answers only a request that was sent to it.
Answers(provider, code, state, error) ==
  IF CallbackOf(impl, cookies, provider, code, state, error,
                NoResponse).tokenReq.sent
    THEN TokenResponses \cup {NetworkFailure} ELSE {NoResponse}

Callback(provider, code, state, error) ==
  /\ steps < MaxSteps
  /\ \E resp \in Answers(provider, code, state, error) :
       LET res == CallbackOf(impl, cookies, provider, code, state, error, resp)
           attempt == [provider |-> provider, state |-> state, code |-> code]
       IN /\ Handle([res EXCEPT !.replay = attempt \in consumed])
          /\ consumed' = IF Succeeded(res)
                           THEN consumed \cup {attempt} ELSE consumed
  /\ UNCHANGED <<impl, nonce>>

\* The token endpoint answers a refresh request that was sent to it.
RefreshAnswers(provider) ==
  IF RefreshOf(impl, cookies, provider, NoResponse).tokenReq.sent
    THEN RefreshResponses ELSE {NoResponse}

Refresh(provider) ==
  /\ steps < MaxSteps
  /\ \E resp \in RefreshAnswers(provider) :
       Handle(RefreshOf(impl, cookies, provider, resp))
  /\ UNCHANGED <<impl, nonce, consumed>>

\* The revocation endpoint answers a request that was sent to it.
RevocationAnswers(provider) ==
  IF DisconnectOf(impl, cookies, provider, NoResponse).tokenReq.sent
    THEN RevocationResponses ELSE {NoResponse}

Disconnect(provider) ==
  /\ steps < MaxSteps
  /\ \E resp \in RevocationAnswers(provider) :
       Handle(DisconnectOf(impl, cookies, provider, resp))
  /\ UNCHANGED <<impl, nonce, consumed>>

\* The userinfo endpoint answers a request that was sent to it.
UserinfoAnswers(provider) ==
  IF UserinfoLib(cookies, provider, NoUserinfoResponse).tokenReq.sent
    THEN RouteResponses ELSE {NoUserinfoResponse}

Userinfo(provider) ==
  /\ steps < MaxSteps
  /\ impl = "lib"
  /\ \E resp \in UserinfoAnswers(provider) :
       Handle(UserinfoLib(cookies, provider, resp))
  /\ UNCHANGED <<impl, nonce, consumed>>

\* The token-info endpoint answers a request that was sent to it.
TokenInfoAnswers(provider) ==
  IF TokenInfoHand(cookies, provider, NoUserinfoResponse).tokenReq.sent
    THEN RouteResponses ELSE {NoUserinfoResponse}

TokenInfo(provider) ==
  /\ steps < MaxSteps
  /\ impl = "hand"
  /\ \E resp \in TokenInfoAnswers(provider) :
       Handle(TokenInfoHand(cookies, provider, resp))
  /\ UNCHANGED <<impl, nonce, consumed>>

\* The browser drops a cookie (expiry, or the user clearing it).
CookieLost(name) ==
  /\ steps < MaxSteps
  /\ cookies[name] # None
  /\ cookies' = [cookies EXCEPT ![name] = None]
  /\ last' = [NoResult EXCEPT !.op = "cookieLost", !.cookies = cookies]
  /\ steps' = steps + 1
  /\ UNCHANGED <<impl, nonce, consumed, button>>

Next ==
  \/ \E provider \in ProviderIds : AuthorizeStart(provider)
  \/ \E provider \in ProviderIds, code \in CodeParams,
        state \in StateParams, error \in ErrorParams :
       Callback(provider, code, state, error)
  \/ \E provider \in ProviderIds : Refresh(provider)
  \/ \E provider \in ProviderIds : Disconnect(provider)
  \/ \E provider \in ProviderIds : Userinfo(provider)
  \/ \E provider \in ProviderIds : TokenInfo(provider)
  \/ \E name \in CookieNames : CookieLost(name)

Spec == Init /\ [][Next]_vars

\* The session after its first connection: the cookie jar and the outcome
\* of an authorize request followed by the callback whose code exchange
\* the token endpoint answered with `body`.
Connect(i, provider, body) ==
  LET jar0 == [c \in CookieNames |-> None]
      authorize == IF i = "lib" THEN AuthorizeLib(jar0, 1, provider)
                                ELSE AuthorizeHand(jar0, 1, provider)
      jar1 == ApplySetCookie(jar0, authorize.setCookie)
      callback == CallbackOf(i, jar1, provider, "abc", generateState(1), None,
                             [status |-> 200, body |-> body])
  IN [ last |-> callback,
       cookies |-> ApplySetCookie(jar1, callback.setCookie) ]

\* A session that has connected one provider and holds its access token
\* and its refresh token; ReconnectSteps requests are still to come.
InitConnected ==
  /\ impl \in Impls
  /\ \E provider \in VALID_PROVIDERS :
       LET connected ==
             Connect(impl, provider,
                     [ json |-> TRUE, access_token |-> "tokA",
                       refresh_token |-> "refA" ])
       IN /\ Succeeded(connected.last)
          /\ cookies = connected.cookies
          /\ last = connected.last
          /\ consumed = {[ provider |-> provider, state |-> generateState(1),
                           code |-> "abc" ]}
  /\ nonce = 2
  /\ steps = MaxSteps - ReconnectSteps
  /\ button = NoButton

SpecConnected == InitConnected /\ [][Next]_vars

\* The client library on its own: an OAuthClient of one provider, the
\* environment it runs in and the answer its identity fetch will get.
InitIdentity ==
  /\ impl \in Impls
  /\ cookies = [c \in CookieNames |-> None]
  /\ nonce = 1
  /\ steps = 0
  /\ consumed = {}
  /\ button = NoButton
  /\ \E provider \in (IF impl = "lib" THEN VALID_PROVIDERS ELSE HandProviders),
        envSet \in BOOLEAN, resp \in UserinfoResponses :
       last = [NoResult EXCEPT !.op = "client", !.impl = impl,
                               !.provider = provider,
                               !.userinfoEnv = envSet, !.userResp = resp]

\* client.getUserInfo()
FetchIdentity ==
  /\ last.op = "client"
  /\ last' = [last EXCEPT
                !.op = "getUserInfo",
                !.identity = getUserInfo(impl, last.provider,
                                         last.userinfoEnv, last.userResp)]
  /\ steps' = steps + 1
  /\ UNCHANGED <<impl, cookies, nonce, consumed, button>>

\* client.validateToken()
ValidateToken ==
  /\ last.op = "client"
  /\ last' = [last EXCEPT
                !.op = "validateToken",
                !.identity = getUserInfo(impl, last.provider,
                                         last.userinfoEnv, last.userResp),
                !.valid = validateToken(impl, last.provider,
                                        last.userinfoEnv, last.userResp)]
  /\ steps' = steps + 1
  /\ UNCHANGED <<impl, cookies, nonce, consumed, button>>

NextIdentity == FetchIdentity \/ ValidateToken

SpecIdentity == InitIdentity /\ [][NextIdentity]_vars

(***************************************************************************)
(* The home page with the ConnectButton of one provider.                   *)
(***************************************************************************)
\* The page is rendered for a provider that is not connected.
InitButton ==
  /\ impl \in Impls
  /\ cookies = [c \in CookieNames |-> None]
  /\ nonce = 1
  /\ steps = 0
  /\ last = NoResult
  /\ consumed = {}
  /\ \E provider \in HandProviders, usePopup \in BOOLEAN :
       button = [NoButton EXCEPT !.provider = provider,
                                 !.usePopup = usePopup]

Server == <<impl, cookies, nonce, steps, last, consumed>>

\* The page is shown and its scripts run.
PageShown == button.location = "page"

\* onClick of the Connect button, which is rendered when the provider is
\* not connected and is disabled while isConnecting.
Click ==
  /\ PageShown
  /\ ~button.isConnected
  /\ ~button.isConnecting
  /\ button.clicks < MaxClicks
  /\ \E opened \in {"open", "null"} :
       button' = [handleConnect(button, opened) EXCEPT
                    !.clicks = @ + 1, !.event = "click",
                    !.prev = Snapshot(button)]
  /\ UNCHANGED Server

\* The user closes the popup.
PopupClosed ==
  /\ button.popup = "open"
  /\ button' = [button EXCEPT !.popup = "closed", !.event = "closed",
                              !.prev = Snapshot(button)]
  /\ UNCHANGED Server

\* The listener of the button receives a message event.
Deliver(event, targetOrigin) ==
  /\ PageShown
  /\ button.listener
  /\ targetOrigin = Origin
  /\ \E connected \in BOOLEAN :
       button' = [handleMessage(button, event, connected) EXCEPT
                    !.event = "message", !.msg = event,
                    !.targetOrigin = targetOrigin,
                    !.prev = Snapshot(button)]
  /\ UNCHANGED Server

\* A popup of the page reaches /oauth/<provider>/success: the popup of this
\* button, or the popup of the button of another provider.
SuccessPage(provider) ==
  /\ provider = button.provider => button.popup = "open"
  /\ LET posted == OAuthSuccess(provider)
     IN Deliver(posted.event, posted.targetOrigin)

\* Any window posts a message to the page.
Message(event) == Deliver(event, Origin)

\* The interval of 500 ms fires.
CheckPopup ==
  /\ PageShown
  /\ button.interval
  /\ button' = [checkPopup(button) EXCEPT !.event = "tick",
                                          !.prev = Snapshot(button)]
  /\ UNCHANGED Server

NextButton ==
  \/ Click
  \/ PopupClosed
  \/ \E provider \in HandProviders : SuccessPage(provider)
  \/ \E event \in MessageEvents : Message(event)
  \/ CheckPopup

\* The interval keeps firing as long as it is not cleared.
SpecButton == InitButton /\ [][NextButton]_vars /\ WF_vars(CheckPopup)


(***************************************************************************)
(* Vocabulary of the properties.  They speak of the last request handled:  *)
(* last.cookies is the jar the request carried, cookies the jar after the  *)
(* response.                                                               *)
(***************************************************************************)
\* The last request was a callback for a known provider.
IsCallback == last.op = "callback" /\ last.provider \in VALID_PROVIDERS

\* The name of a cookie of the last request's provider.
CookieOf(key) == getProviderConfig(last.provider).cookiePrefix \o key

StoredBefore(key) == last.cookies[CookieOf(key)]

StoredAfter(key) == cookies[CookieOf(key)]

UsesPKCE == getProviderConfig(last.provider).usePKCE

CallbackFailed == last.status \in {400, 500} /\ last.redirect = None

CallbackSucceeded ==
  last.status = 307 /\ last.redirect = successUrl(last.provider)

TokenRequestSent == last.tokenReq.sent

\* The response writes no token cookie and the stored tokens are as before.
NoTokenStored ==
  /\ \A c \in last.setCookie :
       c.name \notin {CookieOf("access_token"), CookieOf("refresh_token")}
  /\ StoredAfter("access_token") = StoredBefore("access_token")
  /\ StoredAfter("refresh_token") = StoredBefore("refresh_token")

\* The callback's state is the one stored for the provider.
StateMatches ==
  StoredBefore("oauth_state") # None /\ last.state = StoredBefore("oauth_state")

\* The answer of the token endpoint is a token payload.
ValidTokenBody ==
  last.tokenResp.body.json /\ last.tokenResp.body.access_token # None

\* The last request was a refresh for a known provider.
IsRefresh == last.op = "refresh" /\ last.provider \in VALID_PROVIDERS

RefreshSucceeded ==
  last.status = 200 /\ last.message = "Token refreshed successfully"

RefreshFailed ==
  last.status = 500 /\ last.message = "Failed to refresh token"

\* The last request was a disconnect for a known provider.
IsDisconnect == last.op = "disconnect" /\ last.provider \in VALID_PROVIDERS

DisconnectSucceeded == last.status = 200 /\ last.message = "success"

\* The provider of the last request was connected when the request came.
WasConnected == isConnected(last.cookies, last.provider)

\* The deployed disconnect route knows a revocation endpoint for the
\* provider of the last request; the hand-rolled route knows none.
HasRevocationEndpoint ==
  impl = "lib" /\ RevocationEndpoint(last.provider) # None

\* The providers the deployed routes know.
KnownProviders == IF impl = "lib" THEN VALID_PROVIDERS ELSE HandProviders

\* The last request was an authorize-start that redirected to the provider.
AuthorizeRedirected ==
  last.op = "authorize" /\ last.provider \in VALID_PROVIDERS /\ Succeeded(last)

\* The last request was a userinfo request for a known provider.
IsUserinfo == last.op = "userinfo" /\ last.provider \in VALID_PROVIDERS

\* The response's tokens are stored and the attempt is deleted.
TokensStoredAttemptDeleted ==
  /\ StoredAfter("access_token") = last.tokenResp.body.access_token
  /\ last.tokenResp.body.refresh_token # None =>
       StoredAfter("refresh_token") = last.tokenResp.body.refresh_token
  /\ StoredAfter("oauth_state") = None
  /\ StoredAfter("code_verifier") = None

(***************************************************************************)
(* C1: a callback for P whose `state` is not the state stored for P (or    *)
(* for which no state is stored) fails, sends no request to the token      *)
(* endpoint and stores no token, whatever its `code`.                      *)
(***************************************************************************)
C1_StateMismatchRejected ==
  (IsCallback /\ ~StateMatches) =>
    (CallbackFailed /\ ~TokenRequestSent /\ NoTokenStored)

C1_Witness ==
  /\ IsCallback
  /\ StoredBefore("oauth_state") # None
  /\ last.state \notin {None, StoredBefore("oauth_state")}
  /\ last.code # None
  /\ last.error = None
  /\ last.message \in {"Invalid state", "Authorization validation failed"}

(***************************************************************************)
(* C2: after every callback for P that fails, neither P's stored state nor *)
(* P's stored code verifier remains in the store, and a structured error   *)
(* is returned.                                                            *)
(***************************************************************************)
C2_FailureDiscardsAttempt ==
  (IsCallback /\ CallbackFailed) =>
    /\ StoredAfter("oauth_state") = None
    /\ StoredAfter("code_verifier") = None
    /\ last.message # None

(***************************************************************************)
(* C3: after a successful callback for P the state and the code verifier   *)
(* of P are deleted, and a later callback replaying the same code and      *)
(* state is rejected by state validation without a token request.          *)
(***************************************************************************)
C3_AttemptNeverReused ==
  /\ (IsCallback /\ CallbackSucceeded) =>
       (StoredAfter("oauth_state") = None /\ StoredAfter("code_verifier") = None)
  /\ (IsCallback /\ last.replay) =>
       /\ ~TokenRequestSent
       /\ CallbackFailed
       /\ last.message \in {"Missing stored state",
                            "Authorization validation failed", "Invalid state"}

C3_Witness ==
  IsCallback /\ last.replay /\ last.code # None /\ last.state \in StateValues

(***************************************************************************)
(* C4: for a provider that requires PKCE, a callback whose state matches   *)
(* while no code verifier is stored sends no token request and (when it    *)
(* carries a code and no error) fails with "Missing code verifier"; for a  *)
(* provider without PKCE the absent verifier never blocks the exchange.    *)
(***************************************************************************)
C4_MissingVerifier ==
  (IsCallback /\ StateMatches /\ StoredBefore("code_verifier") = None) =>
    IF UsesPKCE
      THEN /\ ~TokenRequestSent
           /\ CallbackFailed
           /\ (last.code # None /\ last.error = None) =>
                (last.status = 400 /\ last.message = "Missing code verifier")
      ELSE /\ last.message # "Missing code verifier"
           /\ (last.code # None /\ last.error = None) => TokenRequestSent

C4_Witness ==
  /\ IsCallback /\ StateMatches /\ UsesPKCE
  /\ StoredBefore("code_verifier") = None
  /\ last.code # None
  /\ last.message = "Missing code verifier"

(***************************************************************************)
(* C5: a callback that carries an `error` parameter fails, whatever else   *)
(* it carries: no request is sent to the token endpoint and no token is    *)
(* stored.                                                                 *)
(***************************************************************************)
C5_ErrorParameterFails ==
  (IsCallback /\ last.error # None) =>
    (CallbackFailed /\ ~TokenRequestSent /\ NoTokenStored)

(***************************************************************************)
(* C6: a callback without `code` or without `state` is rejected with a     *)
(* client error before any token request, and no token is stored.          *)
(***************************************************************************)
C6_MalformedCallbackRejected ==
  (IsCallback /\ (last.code = None \/ last.state = None)) =>
    (last.status = 400 /\ CallbackFailed /\ ~TokenRequestSent /\ NoTokenStored)

C6_Witness ==
  /\ IsCallback /\ StateMatches
  /\ last.code = None
  /\ last.error = None
  /\ UsesPKCE => StoredBefore("code_verifier") # None
  /\ last.status = 400

(***************************************************************************)
(* C7: a token-endpoint answer that is not 2xx, or is 2xx without a valid  *)
(* token payload, makes the callback fail, and no token is stored.         *)
(***************************************************************************)
C7_BadTokenResponseFails ==
  (/\ IsCallback
   /\ TokenRequestSent
   /\ ~ResponseOk(last.tokenResp.status) \/ ~ValidTokenBody) =>
    (CallbackFailed /\ NoTokenStored)

(***************************************************************************)
(* C8: a token-endpoint answer with any 2xx status and a token payload is  *)
(* a successful exchange.                                                  *)
(***************************************************************************)
C8_Any2xxSucceeds ==
  (/\ IsCallback
   /\ TokenRequestSent
   /\ ResponseOk(last.tokenResp.status)
   /\ ValidTokenBody) =>
    CallbackSucceeded

(***************************************************************************)
(* C9: for supabase an answer 201 with a valid token payload succeeds      *)
(* exactly as the answer 200 would: the tokens are stored and the attempt  *)
(* is deleted.                                                             *)
(***************************************************************************)
C9_Supabase201 ==
  (/\ IsCallback
   /\ last.provider = "supabase"
   /\ TokenRequestSent
   /\ last.tokenResp.status = 201
   /\ ValidTokenBody) =>
    /\ CallbackSucceeded
    /\ TokensStoredAttemptDeleted
    /\ [last EXCEPT !.tokenResp.status = 200, !.replay = FALSE] =
         CallbackOf(impl, last.cookies, last.provider, last.code, last.state,
                    last.error, [last.tokenResp EXCEPT !.status = 200])

C9_Witness ==
  /\ IsCallback
  /\ impl = "lib"
  /\ last.provider = "supabase"
  /\ StateMatches
  /\ StoredBefore("code_verifier") # None
  /\ TokenRequestSent
  /\ last.tokenResp.status = 201
  /\ ValidTokenBody
  /\ last.tokenResp.body.refresh_token # None

(***************************************************************************)
(* C10: with an attempt stored for P (state s, and a verifier if PKCE      *)
(* applies), a callback carrying a code and state s whose token request is *)
(* answered 200 with a token payload succeeds: the stored tokens are the   *)
(* payload's, the attempt is deleted, and the caller is redirected to the  *)
(* success page of P.                                                      *)
(***************************************************************************)
C10_CallbackSucceeds ==
  (/\ IsCallback
   /\ StateMatches
   /\ UsesPKCE => StoredBefore("code_verifier") # None
   /\ last.code # None) =>
    /\ last.error = None => TokenRequestSent
    /\ (TokenRequestSent /\ last.tokenResp.status = 200 /\ ValidTokenBody) =>
         (CallbackSucceeded /\ TokensStoredAttemptDeleted)

C10_Witness ==
  /\ IsCallback /\ StateMatches /\ UsesPKCE
  /\ StoredBefore("code_verifier") # None
  /\ last.code # None
  /\ TokenRequestSent
  /\ last.tokenResp.status = 200
  /\ ValidTokenBody
  /\ last.tokenResp.body.refresh_token # None
  /\ CallbackSucceeded

(***************************************************************************)
(* C11: a successful callback for P overwrites any prior TokenSet of P:    *)
(* afterwards the stored access token and the stored refresh token of P    *)
(* are those of the new token response, so when the response carries no    *)
(* refresh token, none is stored next to the new access token.             *)
(* Violated: the refresh token cookie is written only when the response    *)
(* has one and is never deleted, so the refresh token of an earlier        *)
(* exchange stays.                                                         *)
(***************************************************************************)
C11_PriorTokenSetOverwritten ==
  (IsCallback /\ CallbackSucceeded /\ ValidTokenBody) =>
    /\ StoredAfter("access_token") = last.tokenResp.body.access_token
    /\ StoredAfter("refresh_token") = last.tokenResp.body.refresh_token

(***************************************************************************)
(* C12: the token request of the authorization-code exchange               *)
(* authenticates the client with exactly the method of the provider's      *)
(* descriptor: with BASIC the credentials travel only in the header        *)
(* Authorization: Basic base64(client_id:client_secret), with POST only as *)
(* the body parameters client_id and client_secret.                        *)
(* As stated this fails for clerk: its header is the one oauth4webapi      *)
(* builds, base64 of the form-urlencoded id and secret.                    *)
(***************************************************************************)
\* The client credentials of the last request's provider.
ClientOf == getClient(last.provider)

IsBasic == ClientOf.token_endpoint_auth_method = "client_secret_basic"

\* The credentials travel only in the body.
CredentialsInBody(req) ==
  /\ req.authorization = None
  /\ req.client_id = ClientOf.client_id
  /\ req.client_secret = ClientOf.client_secret

\* The credentials travel only in the Authorization header `header`.
CredentialsInHeader(req, header) ==
  /\ req.authorization = header
  /\ req.client_id = None
  /\ req.client_secret = None

\* C12 as stated: the Basic header is base64(client_id:client_secret) for
\* every BASIC provider.
C12_BasicIsPlainBase64 ==
  (IsCallback /\ TokenRequestSent) =>
    IF IsBasic
      THEN CredentialsInHeader(last.tokenReq,
             BasicBtoa(ClientOf.client_id, ClientOf.client_secret))
      ELSE CredentialsInBody(last.tokenReq)

\* The Basic header of the code exchange: the plain credentials for
\* supabase, the form-urlencoded ones (RFC 6749, 2.3.1) for any other
\* provider.
ExchangeBasicHeader ==
  IF last.provider = "supabase"
    THEN BasicBtoa(ClientOf.client_id, ClientOf.client_secret)
    ELSE BasicBtoa(formUrlEncode(ClientOf.client_id),
                   formUrlEncode(ClientOf.client_secret))

\* C12, amended: with BASIC the credentials travel only in the
\* Authorization: Basic header, base64(client_id:client_secret) for supabase
\* and base64(urlenc(client_id):urlenc(client_secret)) for any other
\* provider; with POST they travel only as body parameters.
C12_ClientAuthentication ==
  (IsCallback /\ TokenRequestSent) =>
    IF IsBasic
      THEN CredentialsInHeader(last.tokenReq, ExchangeBasicHeader)
      ELSE CredentialsInBody(last.tokenReq)

\* A code exchange for a BASIC provider other than supabase has been sent.
C12_Witness ==
  /\ IsCallback /\ TokenRequestSent /\ IsBasic
  /\ last.provider = "clerk"
  /\ last.tokenReq.authorization # None

(***************************************************************************)
(* C13: every token request of the authorization-code exchange carries     *)
(* grant_type=authorization_code, the callback's code and the provider's   *)
(* redirect_uri, and carries code_verifier if and only if the provider     *)
(* uses PKCE; the verifier sent is the one stored for that provider.       *)
(***************************************************************************)
C13_TokenRequestParameters ==
  (IsCallback /\ TokenRequestSent) =>
    /\ last.tokenReq.grant_type = "authorization_code"
    /\ last.tokenReq.code = last.code
    /\ last.tokenReq.redirect_uri = getProviderConfig(last.provider).redirectUri
    /\ last.tokenReq.code_verifier # None <=> UsesPKCE
    /\ last.tokenReq.code_verifier # None =>
         last.tokenReq.code_verifier = StoredBefore("code_verifier")

\* A code exchange with PKCE has been sent, with the stored verifier.
C13_Witness ==
  /\ IsCallback /\ TokenRequestSent /\ UsesPKCE
  /\ last.code = "abc"
  /\ last.tokenReq.code_verifier = generateCodeVerifier(1)

C15_RefreshFailureKeepsTokens ==
  (IsRefresh /\ TokenRequestSent
     /\ (~ResponseOk(last.tokenResp.status) \/ ~ValidTokenBody)) =>
    /\ RefreshFailed
    /\ NoTokenStored
    /\ last.requests = 1

(***************************************************************************)
(* C16: the refresh-token grant request carries grant_type=refresh_token   *)
(* and the stored refresh token, and transports the client credentials as  *)
(* the provider's authorization-code exchange request does: same placement *)
(* (header or body) and same encoding.                                     *)
(* Violated by the oauth4webapi client for supabase: the exchange sends    *)
(* the plain base64 header, the refresh the form-urlencoded one.           *)
(***************************************************************************)
\* The code exchange request the deployed callback route sends for the
\* last request's provider.
ExchangeRequest ==
  IF impl = "lib"
    THEN authorizationCodeGrantRequest(last.provider, "abc", None)
    ELSE HandTokenRequest(last.provider, getOAuthConfig(last.provider),
                          "abc", None)

C16_RefreshAuthenticatesLikeExchange ==
  (IsRefresh /\ TokenRequestSent) =>
    /\ last.tokenReq.grant_type = "refresh_token"
    /\ last.tokenReq.refresh_token = StoredBefore("refresh_token")
    /\ last.tokenReq.authorization = ExchangeRequest.authorization
    /\ last.tokenReq.client_id = ExchangeRequest.client_id
    /\ last.tokenReq.client_secret = ExchangeRequest.client_secret

(***************************************************************************)
(* C17: after a user-initiated disconnect for P, whatever the outcome of   *)
(* the revocation request (accepted, error reported, call failed), no      *)
(* access token of P is stored and P is not shown as connected.            *)
(* Violated by the oauth4webapi route: on a revocation error it answers    *)
(* 500 before the cookies are deleted.                                     *)
(***************************************************************************)
C17_DisconnectAlwaysForgets ==
  (IsDisconnect /\ WasConnected) =>
    /\ StoredAfter("access_token") = None
    /\ ~isConnected(cookies, last.provider)

(***************************************************************************)
(* C18: a disconnect for a connected provider whose descriptor has no      *)
(* revocation endpoint returns success without sending any network         *)
(* request, and the local tokens of the provider are deleted.              *)
(* Violated by the oauth4webapi route: revocationRequest throws without a  *)
(* revocation endpoint, the route answers 500 and deletes nothing.         *)
(***************************************************************************)
C18_NoEndpointNoRequest ==
  (IsDisconnect /\ WasConnected /\ ~HasRevocationEndpoint) =>
    /\ DisconnectSucceeded
    /\ ~TokenRequestSent
    /\ last.requests = 0
    /\ StoredAfter("access_token") = None
    /\ StoredAfter("refresh_token") = None

(***************************************************************************)
(* C19: a disconnect for P that reports success deletes the TokenSet of P  *)
(* wholesale: afterwards neither an access token nor a refresh token of P  *)
(* is stored.                                                              *)
(* Violated by the hand-rolled route: for github it deletes the access     *)
(* token only.                                                             *)
(***************************************************************************)
C19_SuccessDeletesTokenSet ==
  (IsDisconnect /\ DisconnectSucceeded) =>
    /\ StoredAfter("access_token") = None
    /\ StoredAfter("refresh_token") = None

(***************************************************************************)
(* C20: every operation invoked with a provider identifier outside the     *)
(* set of known providers returns a client error (status 4xx, not an       *)
(* internal error) without writing the store and without any network call. *)
(* Violated by both disconnect routes: neither validates the provider.     *)
(***************************************************************************)
C20_UnknownProviderRejected ==
  (last.op \in {"authorize", "callback", "refresh", "disconnect",
                "userinfo", "token-info"}
     /\ last.provider \notin KnownProviders) =>
    /\ last.status >= 400 /\ last.status <= 499
    /\ last.setCookie = {}
    /\ cookies = last.cookies
    /\ ~TokenRequestSent
    /\ last.requests = 0

(***************************************************************************)
(* C21: every provider identifier accepted by isValidProvider has exactly  *)
(* one descriptor (getClient, getAuthorizationServer and getProviderConfig *)
(* all have a case for it), and every route that accepts an identifier by  *)
(* isValidProvider handles it with its own configuration.                  *)
(* The registry part holds; the userinfo route breaks the second part: for *)
(* every provider but supabase it reads the access token of github.        *)
(***************************************************************************)
\* No accepted identifier makes a registry function throw.
RegistryComplete ==
  \A provider \in VALID_PROVIDERS :
    /\ provider \in getClientCases
    /\ provider \in getAuthorizationServerCases
    /\ provider \in getProviderConfigCases
    /\ getProviderConfig(provider).cookiePrefix = provider \o "_"

\* The userinfo route authenticates with the access token stored under the
\* provider's own prefix, and answers 401 exactly when there is none.
UserinfoUsesOwnToken ==
  IsUserinfo =>
    /\ last.status = 401 <=> ~Truthy(StoredBefore("access_token"))
    /\ TokenRequestSent =>
         last.tokenReq.authorization =
           "Bearer " \o StoredBefore("access_token")

C21_RegistryConsistent == RegistryComplete /\ UserinfoUsesOwnToken

(***************************************************************************)
(* C22: an operation for provider P reads, writes and deletes only store   *)
(* entries under P's own prefix: it leaves every entry of any other        *)
(* provider unchanged, and its outcome is the same when the entries of the *)
(* other providers are taken out of the store.                             *)
(* Violated by the userinfo route, which reads github's access token for   *)
(* clerk and google.                                                       *)
(***************************************************************************)
\* The store entries under the prefix of the last request's provider.
OwnCookies == { CookieOf(key) : key \in CookieKeys }

\* The store the last request found, without the other providers' entries.
OwnJar == [ n \in CookieNames |-> IF n \in OwnCookies THEN last.cookies[n]
                                                       ELSE None ]

\* The last request handled again, on the store `jar`.
Again(jar) ==
  CASE last.op = "authorize" ->
         LET n == IF Succeeded(last) THEN nonce - 1 ELSE nonce
         IN IF impl = "lib" THEN AuthorizeLib(jar, n, last.provider)
                            ELSE AuthorizeHand(jar, n, last.provider)
    [] last.op = "callback" ->
         CallbackOf(impl, jar, last.provider, last.code, last.state,
                    last.error, last.tokenResp)
    [] last.op = "refresh" ->
         RefreshOf(impl, jar, last.provider, last.tokenResp)
    [] last.op = "disconnect" ->
         DisconnectOf(impl, jar, last.provider, last.tokenResp)
    [] last.op = "userinfo" -> UserinfoLib(jar, last.provider, last.userResp)
    [] OTHER -> TokenInfoHand(jar, last.provider, last.userResp)

\* What the caller and the provider see of a request.
Outcome(res) ==
  <<res.status, res.message, res.redirect, res.authUrl, res.setCookie,
    res.tokenReq, res.requests, res.identity>>

IsOperation ==
  /\ last.op \in {"authorize", "callback", "refresh", "disconnect",
                  "userinfo", "token-info"}
  /\ last.provider \in VALID_PROVIDERS

C22_NamespaceIsolation ==
  IsOperation =>
    /\ \A n \in CookieNames \ OwnCookies : cookies[n] = last.cookies[n]
    /\ Outcome(Again(OwnJar)) = Outcome(last)

(***************************************************************************)
(* C23: when authorize-start runs more than once for the same provider and *)
(* session, only the attempt persisted last is live: a callback carrying   *)
(* an earlier attempt's state is rejected, sends no token request and      *)
(* stores no token; a callback carrying the last attempt's state passes    *)
(* state validation and is exchanged with the last attempt's code          *)
(* verifier.                                                               *)
(***************************************************************************)
\* `state` and `verifier` were generated by the same authorize-start.
SameAttempt(state, verifier) ==
  \E n \in 1..MaxAttempts :
    state = generateState(n) /\ verifier = generateCodeVerifier(n)

\* The state and the verifier stored for a provider are of one attempt.
LiveAttemptCoherent ==
  \A provider \in VALID_PROVIDERS :
    LET state == cookies[provider \o "_oauth_state"]
        verifier == cookies[provider \o "_code_verifier"]
    IN (state # None /\ verifier # None) => SameAttempt(state, verifier)

C23_LastAttemptIsLive ==
  /\ LiveAttemptCoherent
  /\ (IsCallback /\ last.state \in StateValues /\ ~StateMatches) =>
       (CallbackFailed /\ ~TokenRequestSent /\ NoTokenStored)
  /\ (IsCallback /\ StateMatches /\ last.code # None /\ last.error = None
        /\ ~MissingVerifier(UsesPKCE, StoredBefore("code_verifier"))) =>
       TokenRequestSent
  /\ (IsCallback /\ TokenRequestSent /\ UsesPKCE) =>
       SameAttempt(last.state, last.tokenReq.code_verifier)

\* Authorize-start ran twice for supabase and nothing else is stored; the
\* callback carries the state of the second attempt and is exchanged with
\* the second verifier.
C23_Witness ==
  /\ IsCallback /\ last.provider = "supabase"
  /\ \A n \in CookieNames \ OwnCookies : last.cookies[n] = None
  /\ nonce = 3
  /\ last.state = generateState(2)
  /\ TokenRequestSent
  /\ last.tokenReq.code_verifier = generateCodeVerifier(2)

(***************************************************************************)
(* C24: the redirect URL built by authorize-start targets the provider's   *)
(* authorization endpoint and carries client_id, redirect_uri,             *)
(* response_type=code and state; it carries scope if and only if a scope   *)
(* is configured, and code_challenge with code_challenge_method=S256 if    *)
(* and only if the provider uses PKCE.                                     *)
(***************************************************************************)
C24_AuthorizationUrl ==
  AuthorizeRedirected =>
    LET url == last.authUrl
        scope == getProviderConfig(last.provider).scope
    IN /\ last.redirect =
            getAuthorizationServer(last.provider).authorization_endpoint
       /\ url.client_id = getClient(last.provider).client_id
       /\ url.redirect_uri = getProviderConfig(last.provider).redirectUri
       /\ url.response_type = "code"
       /\ Truthy(url.state)
       /\ url.scope = (IF Truthy(scope) THEN scope ELSE None)
       /\ IF UsesPKCE
            THEN Truthy(url.code_challenge) /\ url.code_challenge_method = "S256"
            ELSE url.code_challenge = None /\ url.code_challenge_method = None

\* An authorize-start for github has redirected: a scope, no PKCE.
C24_Witness ==
  /\ AuthorizeRedirected /\ last.provider = "github"
  /\ last.authUrl.scope = "read:user read:org"
  /\ last.authUrl.code_challenge = None

(***************************************************************************)
(* C25: every authorize-start for P persists a freshly generated state     *)
(* under P's prefix, and a code verifier if and only if P uses PKCE; the   *)
(* state persisted is the state of the redirect URL, and the               *)
(* code_challenge of the URL is the S256 challenge of the verifier         *)
(* persisted.                                                              *)
(***************************************************************************)
\* The state was not in the store and was never exchanged before.
FreshState(state) ==
  /\ \A n \in CookieNames : last.cookies[n] # state
  /\ \A attempt \in consumed : attempt.state # state

C25_AttemptPersisted ==
  AuthorizeRedirected =>
    /\ Truthy(StoredAfter("oauth_state"))
    /\ StoredAfter("oauth_state") = last.authUrl.state
    /\ FreshState(last.authUrl.state)
    /\ (\E c \in last.setCookie : c.name = CookieOf("code_verifier"))
         <=> UsesPKCE
    /\ UsesPKCE =>
         /\ Truthy(StoredAfter("code_verifier"))
         /\ last.authUrl.code_challenge =
              calculateCodeChallenge(StoredAfter("code_verifier"))

\* A second authorize-start for a PKCE provider has replaced the attempt
\* of the first one.
C25_Witness ==
  /\ AuthorizeRedirected /\ UsesPKCE
  /\ StoredBefore("oauth_state") = generateState(1)
  /\ StoredAfter("oauth_state") = generateState(2)
  /\ StoredAfter("code_verifier") = generateCodeVerifier(2)

(***************************************************************************)
(* C26: for every provider and every identity payload, normalization picks *)
(* the first present field in one precedence: id from sub then id          *)
(* (rendered as a string), username from preferred_username then username  *)
(* then login, avatar from picture then avatar_url.                        *)
(* Violated: each provider has its own fields and order; github reads id,  *)
(* login and avatar_url only, the default case prefers id to sub.          *)
(***************************************************************************)
\* getUserInfo has returned an identity.
IdentityReturned == last.op = "getUserInfo" /\ last.identity.ok

\* The first field of `fields` the payload has, undefined if it has none.
RECURSIVE FirstPresent(_)
FirstPresent(fields) ==
  IF fields = <<>> THEN Undef
  ELSE IF Head(fields).t # "undefined" THEN Head(fields)
  ELSE FirstPresent(Tail(fields))

C26_NormalizationPrecedence ==
  IdentityReturned =>
    LET data == last.userResp.data
        id == FirstPresent(<<data.sub, data.id>>)
    IN /\ id.t # "undefined" => last.identity.id = Str(id.v)
       /\ last.identity.username =
            FirstPresent(<<data.preferred_username, data.username, data.login>>)
       /\ last.identity.avatar_url =
            FirstPresent(<<data.picture, data.avatar_url>>)

(***************************************************************************)
(* C27: every identity returned by a successful getUserInfo has a          *)
(* non-empty id that identifies the account: never the empty string, never *)
(* a placeholder such as "undefined".                                      *)
(* Violated: supabase without sub and id yields "", github without id      *)
(* yields "undefined".                                                     *)
(***************************************************************************)
C27_IdentityHasId ==
  IdentityReturned =>
    /\ last.identity.id.t = "string"
    /\ last.identity.id.v \notin {"", "undefined"}

(***************************************************************************)
(* C28: validateToken returns true exactly when getUserInfo succeeds, and  *)
(* returns false, never raising an exception, when the identity fetch      *)
(* fails for any reason (answer not 2xx, network failure, unparseable      *)
(* body, no userinfo endpoint configured).                                 *)
(***************************************************************************)
C28_ValidateToken ==
  last.op = "validateToken" =>
    /\ last.valid \in {"true", "false"}
    /\ last.valid = "true" <=> last.identity.ok
    /\ (\/ ~ResponseOk(last.userResp.status)
        \/ ~last.userResp.json
        \/ last.identity.transport = None) => last.valid = "false"

\* validateToken has returned false for a provider without any userinfo
\* endpoint.
C28_Witness ==
  /\ last.op = "validateToken"
  /\ last.identity.transport = None
  /\ last.valid = "false"

(***************************************************************************)
(* C29: getUserInfo uses exactly one of two transports per call, chosen    *)
(* from the provider's descriptor: the standards-based userinfo request    *)
(* when the authorization server has a userinfo endpoint, otherwise the    *)
(* provider-specific REST call with the provider's Accept header; an       *)
(* answer that is not 2xx on either transport, or a provider with neither  *)
(* endpoint, makes getUserInfo fail.                                       *)
(***************************************************************************)
\* The authorization server of the client has a userinfo endpoint.
HasUserinfoEndpoint ==
  /\ impl = "lib"
  /\ last.userinfoEnv
  /\ getAuthorizationServer(last.provider).userinfo_endpoint # None

\* The provider has an endpoint for the REST call.
HasRestEndpoint ==
  impl = "hand" \/ getProviderConfig(last.provider).userInfoEndpoint # None

C29_OneTransport ==
  last.op = "getUserInfo" =>
    /\ last.identity.transport =
         (IF HasUserinfoEndpoint THEN "userinfo"
          ELSE IF HasRestEndpoint THEN "rest" ELSE None)
    /\ last.identity.requests = (IF last.identity.transport = None THEN 0 ELSE 1)
    /\ last.identity.transport = "rest" =>
         last.identity.accept =
           (IF last.provider = "github" THEN "application/vnd.github+json"
                                        ELSE "application/json")
    /\ ~ResponseOk(last.userResp.status) => ~last.identity.ok
    /\ last.identity.transport = None => ~last.identity.ok

\* The REST call for github was answered 401 and getUserInfo failed.
C29_Witness ==
  /\ last.op = "getUserInfo" /\ last.provider = "github"
  /\ last.identity.transport = "rest"
  /\ last.identity.accept = "application/vnd.github+json"
  /\ last.userResp.status = 401
  /\ ~last.identity.ok

(***************************************************************************)
(* C30: every failure of a request to the provider (token exchange,        *)
(* refresh, revocation, identity fetch; a network failure included) ends,  *)
(* in every route, in a structured error response with the fixed message   *)
(* of the route; none propagates as an uncaught exception.                 *)
(* Violated: the disconnect route awaits revocationRequest outside any     *)
(* try, and the hand-rolled callback parses the token response outside     *)
(* any try.                                                                *)
(***************************************************************************)
\* The request the last handler sent to the provider was not answered, or
\* was answered with a status that is not 2xx.
ProviderRequestFailed ==
  /\ last.tokenReq.sent
  /\ \/ /\ last.op \in {"callback", "refresh", "disconnect"}
        /\ \/ last.tokenResp = NetworkFailure
           \/ ~ResponseOk(last.tokenResp.status)
     \/ /\ last.op \in {"userinfo", "token-info"}
        /\ ~ResponseOk(last.userResp.status)

\* The fixed message of the error response of each route.
FailureMessage(op) ==
  CASE op = "callback"   -> {"Failed to exchange code for token"}
    [] op = "refresh"    -> {"Failed to refresh token"}
    [] op = "disconnect" -> {"Failed to revoke token"}
    [] op = "userinfo"   -> {"Failed to fetch user information"}
    [] op = "token-info" -> {"Failed to fetch token information"}
    [] OTHER             -> {}

C30_FailuresAreStructured ==
  ProviderRequestFailed =>
    /\ last.status \in {400, 500}
    /\ last.message \in FailureMessage(last.op)

(***************************************************************************)
(* C31: the client secret of a provider is never written to the log: no    *)
(* log entry of authorize, callback, refresh or disconnect contains the    *)
(* client secret or a reversible encoding of it, such as the Basic         *)
(* credential base64(client_id:client_secret).                             *)
(* Violated: the customFetch hook of the callback route and of the         *)
(* disconnect route logs the request options and the Basic credential.     *)
(***************************************************************************)
\* The log entry is the client secret or an encoding that gives it back.
RevealsSecret(entry, client) ==
  entry \in { client.client_secret,
              BasicBtoa(client.client_id, client.client_secret),
              BasicBtoa(formUrlEncode(client.client_id),
                        formUrlEncode(client.client_secret)) }

C31_SecretNeverLogged ==
  last.op \in {"authorize", "callback", "refresh", "disconnect"} =>
    \A provider \in VALID_PROVIDERS : \A entry \in last.log :
       ~RevealsSecret(entry, getClient(provider))

BearerTokenSent ==
  /\ last.op \in {"userinfo", "token-info"}
  /\ last.status # 400
  /\ TokenRequestSent

C33_TokenGoesToItsIssuer ==
  BearerTokenSent =>
    /\ Truthy(StoredBefore("access_token"))
    /\ last.tokenReq.authorization = "Bearer " \o StoredBefore("access_token")

(***************************************************************************)
(* C34: a callback for P that fails, at whatever step, leaves a previously *)
(* stored TokenSet of P untouched: the access token and the refresh token  *)
(* stored for P after the failed callback are those stored before it.      *)
(***************************************************************************)
C34_FailedCallbackKeepsTokens ==
  (IsCallback /\ CallbackFailed) =>
    /\ StoredAfter("access_token") = StoredBefore("access_token")
    /\ StoredAfter("refresh_token") = StoredBefore("refresh_token")

\* A connected provider is connected again and the token exchange of the
\* second callback fails.
C34_Witness ==
  /\ IsCallback /\ CallbackFailed /\ TokenRequestSent
  /\ StoredBefore("access_token") = "tokA"
  /\ StoredBefore("refresh_token") = "refA"

(***************************************************************************)
(* C35: an operation that needs a stored token which is absent is rejected *)
(* before any network call and without changing the store: refresh without *)
(* a stored refresh token of P answers 401, userinfo and token-info        *)
(* without a stored access token of P answer 401, disconnect without a     *)
(* stored access token of P answers 400.                                   *)
(* Violated: the userinfo route for clerk and google looks for the access  *)
(* token of github, and the hand-rolled disconnect answers success         *)
(* whatever is stored.                                                     *)
(***************************************************************************)
\* The status with which the last operation is to be rejected when the
\* token it needs is not stored for its provider; 0 when it needs none or
\* has it.
RejectionDue ==
  IF last.provider \notin KnownProviders THEN 0
  ELSE IF last.op = "refresh" /\ StoredBefore("refresh_token") = None THEN 401
  ELSE IF last.op \in {"userinfo", "token-info"}
            /\ StoredBefore("access_token") = None THEN 401
  ELSE IF last.op = "disconnect" /\ StoredBefore("access_token") = None
    THEN 400
  ELSE 0

C35_MissingTokenRejected ==
  RejectionDue # 0 =>
    /\ last.status = RejectionDue
    /\ ~TokenRequestSent
    /\ last.requests = 0
    /\ cookies = last.cookies

(***************************************************************************)
(* C36: from every reachable state in which a refresh token of P is        *)
(* stored, also when the access token of P is no longer stored (its cookie *)
(* expired), a disconnect request for P removes the refresh token of P     *)
(* from the store.                                                         *)
(* Violated: without an access token the route answers 400 and deletes     *)
(* nothing, so the refresh token stays.                                    *)
(***************************************************************************)
C36_DisconnectRemovesRefreshToken ==
  (last.op = "disconnect" /\ last.provider \in KnownProviders
     /\ StoredBefore("refresh_token") # None) =>
    StoredAfter("refresh_token") = None

(***************************************************************************)
(* C37: in popup mode, after handleConnect has set isConnecting, the       *)
(* button eventually leaves the connecting state whenever the flow does    *)
(* not end in a page reload: once the popup is closed, or when window.open *)
(* returned no popup, isConnecting becomes false again and the message     *)
(* listener and the interval are both removed.                             *)
(* Violated: with no popup, popup?.closed is never true and the interval   *)
(* never clears anything.                                                  *)
(***************************************************************************)
\* The button is connecting and its popup is closed or was never opened.
ConnectingWithoutPopup ==
  /\ button.isConnecting
  /\ button.popup \in {"closed", "null"}

\* The button is idle again, its listener and its interval are removed.
ButtonIdle ==
  /\ ~button.isConnecting
  /\ ~button.listener
  /\ ~button.interval

C37_ConnectingEnds == ConnectingWithoutPopup ~> ButtonIdle

(***************************************************************************)
(* C38: the ConnectButton of provider P closes the popup and reloads the   *)
(* page only on a message whose origin is the page's own origin, whose     *)
(* type is oauth-success and whose provider is P; every other message      *)
(* leaves the popup and the state of the button unchanged; the success     *)
(* page posts its message only to its opener at its own origin.            *)
(***************************************************************************)
\* The last message is one the button is to act on.
MessageAccepted ==
  /\ button.msg.origin = Origin
  /\ button.msg.data.type = "oauth-success"
  /\ button.msg.data.provider = button.provider

C38_OnlyOwnSuccessMessage ==
  button.event = "message" =>
    /\ MessageAccepted =>
         /\ button.popup # "open"
         /\ button.reloads = button.prev.reloads + 1
    /\ ~MessageAccepted => Snapshot(button) = button.prev
    /\ button.msg.fromSuccessPage =>
         /\ button.targetOrigin = Origin
         /\ button.msg.origin = Origin
         /\ button.msg.data.type = "oauth-success"

\* A message of another origin that names the provider of the button came
\* while the popup was open, and nothing changed.
C38_Witness ==
  /\ button.event = "message"
  /\ button.msg.origin # Origin
  /\ button.msg.data.type = "oauth-success"
  /\ button.msg.data.provider = button.provider
  /\ button.popup = "open"
  /\ button.isConnecting

====
